---- MODULE Spec2Model ----
(***************************************************************************)
(* Model of python-server/orchestrator/server.py: the in-memory job store  *)
(* (jobs_db), the six FastAPI route handlers that read and write it, and   *)
(* the start-up sequence main() -> run_server() -> print_server_info() ->  *)
(* uvicorn's serve loop.                                                   *)
(*                                                                         *)
(* Every handler is an `async def` whose body contains no await, so the    *)
(* event loop runs a handler body from its first statement to its return   *)
(* without switching to another task.  Requests are nevertheless in flight *)
(* concurrently: the transport layer accepts them on several connections   *)
(* (Receive) and the loop may run the handlers of the accepted requests in *)
(* any order.                                                              *)
(***************************************************************************)
EXTENDS Integers, Sequences, FiniteSets, TLC

\* ---------------------------------------------------------------- bounds
MaxJobs == 3        \* uuid4 values that create_job may draw in one run
MaxStdout == 2      \* lines of standard output the model keeps (a prefix)
MaxReceived == 5    \* requests accepted on the connections in a run of ConcSpec

\* ------------------------------------------------------- value domains
Ids == 1..MaxJobs                      \* the strings str(uuid.uuid4()) can return
NoId == 0                              \* requests without a path id
Conns == {"c1", "c2"}                  \* connections accepted at the same time
JobCreates == { [name |-> "build", description |-> ""],
                [name |-> "test",  description |-> "nightly"] }
Statuses == {"running", "done"}        \* the status query parameter: any string
Digits == <<"0", "1", "2", "3", "4", "5", "6", "7", "8", "9">>

\* sys.argv[1:] : no argument, or one argument given as its characters
Args == { <<>>,
          << <<"9", "9", "9", "9">> >>,
          << <<"a", "b", "c">> >>,
          << <<"8", "a">> >>,
          << <<>> >>,
          << <<" ", "-", "1">> >>,
          << <<"7", "0", "0", "0", "0">> >> }

VARIABLES argv, pc, PORT, stdout, stderr, exitCode,
          jobs_db, created, deleted, pending, received, last

vars == <<argv, pc, PORT, stdout, stderr, exitCode,
          jobs_db, created, deleted, pending, received, last>>

procVars == <<argv, pc, PORT, stderr, exitCode>>
storeVars == <<jobs_db, created, deleted>>

\* ---------------------------------------------------- int(sys.argv[1])
IsSpace(ch) == ch = " "

IsDigit(ch) == \E d \in 1..Len(Digits) : Digits[d] = ch

DigitVal(ch) == (CHOOSE d \in 1..Len(Digits) : Digits[d] = ch) - 1

RECURSIVE LStrip(_)
LStrip(s) == IF s # <<>> /\ IsSpace(Head(s)) THEN LStrip(Tail(s)) ELSE s

RECURSIVE RStrip(_)
RStrip(s) == IF s # <<>> /\ IsSpace(s[Len(s)])
             THEN RStrip(SubSeq(s, 1, Len(s) - 1)) ELSE s

Strip(s) == RStrip(LStrip(s))

HasSign(s) == s # <<>> /\ Head(s) \in {"+", "-"}

Unsigned(s) == IF HasSign(s) THEN Tail(s) ELSE s

\* digits, with single underscores allowed between two digits
DigitsOk(s) ==
    /\ s # <<>>
    /\ \A i \in 1..Len(s) :
         \/ IsDigit(s[i])
         \/ /\ s[i] = "_"
            /\ i > 1 /\ i < Len(s)
            /\ IsDigit(s[i - 1]) /\ IsDigit(s[i + 1])

RECURSIVE DigitsValue(_, _)
DigitsValue(s, acc) ==
    IF s = <<>> THEN acc
    ELSE IF Head(s) = "_" THEN DigitsValue(Tail(s), acc)
    ELSE DigitsValue(Tail(s), 10 * acc + DigitVal(Head(s)))

\* int(s) raises ValueError exactly when this is FALSE
IsInt(s) == DigitsOk(Unsigned(Strip(s)))

IntValue(s) ==
    LET t == Strip(s)
        v == DigitsValue(Unsigned(t), 0)
    IN  IF HasSign(t) /\ Head(t) = "-" THEN 0 - v ELSE v

DefaultPort == 8000

\* ------------------------------------------------------------ job store
Job(id, name, description, status, created_at) ==
    [id |-> id, name |-> name, description |-> description,
     status |-> status, created_at |-> created_at]

NoJob == Job(NoId, "", "", "", 0)

\* `for i, job in enumerate(jobs_db): if job.id == job_id` : the first index
\* whose job has the id, 0 when the loop falls through
RECURSIVE Scan(_, _, _)
Scan(db, job_id, i) ==
    IF i > Len(db) THEN 0
    ELSE IF db[i].id = job_id THEN i
    ELSE Scan(db, job_id, i + 1)

\* mutant: after a loop that found nothing, the loop index is used all the same
FindLeftover(db, job_id) ==
    IF Scan(db, job_id, 1) = 0 THEN Len(db) ELSE Scan(db, job_id, 1)

Find(db, job_id) == Scan(db, job_id, 1)

\* mutant: the job is appended twice
AppendJobTwice(db, job) == Append(Append(db, job), job)

\* jobs_db.append(job)
AppendJob(db, job) == Append(db, job)

\* mutant: the last job is moved into the freed slot
PopSwap(db, i) ==
    IF i = Len(db) THEN SubSeq(db, 1, Len(db) - 1)
    ELSE SubSeq([db EXCEPT ![i] = db[Len(db)]], 1, Len(db) - 1)

\* jobs_db.pop(i)
Pop(db, i) == SubSeq(db, 1, i - 1) \o SubSeq(db, i + 1, Len(db))

\* mutant: the assignment runs for every job the loop visits up to the match
SetStatusAll(db, i, status) ==
    [k \in 1..Len(db) |-> IF k <= i THEN [db[k] EXCEPT !.status = status] ELSE db[k]]

\* job.status = status, on the job object found at index i
SetStatus(db, i, status) == [db EXCEPT ![i].status = status]

\* the job a handler returns for job_id, NoJob when it raises HTTPException
Lookup(db, job_id) ==
    LET i == Find(db, job_id) IN IF i # 0 THEN db[i] ELSE NoJob

NotFoundDetail(job_id) == <<"Job ", job_id, " not found">>

DeletedMessage(job_id) == <<"Job ", job_id, " deleted">>

Request(op, id, body, status) == [op |-> op, id |-> id, body |-> body, status |-> status]

NoBody == [name |-> "", description |-> ""]

Requests ==
    {Request("health", NoId, NoBody, ""), Request("list", NoId, NoBody, "")}
    \cup {Request("get", id, NoBody, "") : id \in Ids}
    \cup {Request("create", NoId, b, "") : b \in JobCreates}
    \cup {Request("delete", id, NoBody, "") : id \in Ids}
    \cup {Request("patch", id, NoBody, s) : id \in Ids, s \in Statuses}

Idle == Request("idle", NoId, NoBody, "")

\* status code and detail/message of the HTTP response to req
Response(req, code, detail) == [req |-> req, code |-> code, detail |-> detail]

NoResponse == Response(Idle, 0, <<>>)

\* the model keeps the first MaxStdout lines of the standard output stream
Write(out, line) == IF Len(out) < MaxStdout THEN Append(out, line) ELSE out

\* uvicorn's access log (access_log=True) writes one line per request to
\* standard output
AccessLog(out) == Write(out, <<"access">>)

\* datetime.now().isoformat(), as a logical clock: the number of the create
\* call that reads it
Now == Len(created) + 1

\* str(uuid.uuid4()): an id no earlier call has returned.  The handlers only
\* ever compare ids for equality, so which unused id is drawn makes no
\* difference to them; the model draws the largest one, which keeps the ids
\* in the store out of step with the order of insertion.
Issued == {created[k].id : k \in 1..Len(created)}

Uuid4 == {id \in Ids \ Issued : \A other \in Ids \ Issued : other <= id}

Init ==
    /\ argv \in Args
    /\ pc = "main"
    /\ PORT = DefaultPort
    /\ stdout = <<>>
    /\ stderr = <<>>
    /\ exitCode = -1
    /\ jobs_db = <<>>
    /\ created = <<>>
    /\ deleted = [id \in Ids |-> 0]
    /\ pending = [c \in Conns |-> Idle]
    /\ received = 0
    /\ last = NoResponse

\* ------------------------------------------------------------- start-up
\* mutant: a ValueError is swallowed and the default port is kept
ParsePortLenient ==
    /\ pc = "main"
    /\ IF Len(argv) > 0 /\ IsInt(argv[1])
       THEN PORT' = IntValue(argv[1])
       ELSE UNCHANGED PORT
    /\ pc' = "run_server"
    /\ UNCHANGED <<argv, stdout, stderr, exitCode, jobs_db, created, deleted, pending,
                   received, last>>

\* main(), lines 187-196: resolve the port
ParsePort ==
    /\ pc = "main"
    /\ \/ /\ Len(argv) = 0
          /\ pc' = "run_server"
          /\ UNCHANGED <<PORT, stderr, exitCode>>
       \/ /\ Len(argv) > 0
          /\ IsInt(argv[1])
          /\ PORT' = IntValue(argv[1])
          /\ pc' = "run_server"
          /\ UNCHANGED <<stderr, exitCode>>
       \/ /\ Len(argv) > 0
          /\ ~IsInt(argv[1])
          /\ stderr' = Append(stderr, <<"Invalid port number: ", argv[1]>>)
          /\ exitCode' = 1
          /\ pc' = "terminated"
          /\ UNCHANGED PORT
    /\ UNCHANGED <<argv, stdout, jobs_db, created, deleted, pending, received, last>>

\* mutant: the default port is announced, not the resolved one
ServerInfoDefault(port) == <<"port", DefaultPort>>

\* json.dumps({"port": port}), line 154-155
ServerInfo(port) == <<"port", port>>

\* print_server_info(port), lines 148-158, called from run_server line 176
print_server_info ==
    /\ pc = "run_server"
    /\ stdout' = Write(stdout, ServerInfo(PORT))
    /\ stderr' = Append(stderr, <<"[Server] Started on port ", PORT>>)
    /\ pc' = "announced"
    /\ UNCHANGED <<argv, PORT, exitCode, jobs_db, created, deleted, pending,
                   received, last>>

\* a TCP port the listener can be bound to
CanBind(port) == port \in 0..65535

\* server.serve(), line 179: uvicorn binds the listening socket and serves
BindOk ==
    /\ pc = "announced"
    /\ CanBind(PORT)
    /\ pc' = "serving"
    /\ UNCHANGED <<argv, PORT, stdout, stderr, exitCode, jobs_db, created, deleted,
                   pending, received, last>>

\* the bind fails (port in use, not permitted, or out of range); the process
\* exits with code 1, through uvicorn's sys.exit(1) or through lines 203-205
BindFail ==
    /\ pc = "announced"
    /\ stderr' = Append(stderr, <<"[Server] Error: ", PORT>>)
    /\ exitCode' = 1
    /\ pc' = "terminated"
    /\ UNCHANGED <<argv, PORT, stdout, jobs_db, created, deleted, pending,
                   received, last>>

\* mutant: the interrupt is handled like any other exception
InterruptError ==
    /\ pc \in {"run_server", "announced", "serving"}
    /\ stderr' = Append(stderr, <<"[Server] Shutting down...">>)
    /\ exitCode' = 1
    /\ pc' = "terminated"
    /\ UNCHANGED <<argv, PORT, stdout, jobs_db, created, deleted, pending,
                   received, last>>

\* KeyboardInterrupt inside asyncio.run(run_server(...)), lines 199-202; main
\* returns and the interpreter exits with code 0
Interrupt ==
    /\ pc \in {"run_server", "announced", "serving"}
    /\ stderr' = Append(stderr, <<"[Server] Shutting down...">>)
    /\ exitCode' = 0
    /\ pc' = "terminated"
    /\ UNCHANGED <<argv, PORT, stdout, jobs_db, created, deleted, pending,
                   received, last>>

\* ------------------------------------------------------------ transport
\* a request is accepted on connection c and waits for the event loop to run
\* its handler
Receive(c, req) ==
    /\ pc = "serving"
    /\ pending[c] = Idle
    /\ received < MaxReceived
    /\ pending' = [pending EXCEPT ![c] = req]
    /\ received' = received + 1
    /\ UNCHANGED <<argv, pc, PORT, stdout, stderr, exitCode, jobs_db, created,
                   deleted, last>>

\* the handler of the request on connection c has returned
Reply(c, resp) ==
    /\ last' = resp
    /\ pending' = [pending EXCEPT ![c] = Idle]
    /\ stdout' = AccessLog(stdout)
    /\ UNCHANGED <<argv, pc, PORT, stderr, exitCode, received>>

Routed(req, op) == pc = "serving" /\ req.op = op

\* ------------------------------------------------------------- handlers
health_check(c, req) ==
    /\ Routed(req, "health")
    /\ Reply(c, Response(req, 200, <<"ok", "orchestrator-server">>))
    /\ UNCHANGED storeVars

get_jobs(c, req) ==
    /\ Routed(req, "list")
    /\ Reply(c, Response(req, 200, <<>>))
    /\ UNCHANGED storeVars

\* mutant: the job is taken out of the store when it is read
get_job_take(c, req) ==
    /\ Routed(req, "get")
    /\ LET i == Find(jobs_db, req.id)
       IN  IF i # 0
           THEN /\ jobs_db' = Pop(jobs_db, i)
                /\ Reply(c, Response(req, 200, <<>>))
           ELSE /\ Reply(c, Response(req, 404, NotFoundDetail(req.id)))
                /\ UNCHANGED jobs_db
    /\ UNCHANGED <<created, deleted>>

get_job(c, req) ==
    /\ Routed(req, "get")
    /\ IF Find(jobs_db, req.id) # 0
       THEN Reply(c, Response(req, 200, <<>>))
       ELSE Reply(c, Response(req, 404, NotFoundDetail(req.id)))
    /\ UNCHANGED storeVars

create_job(c, req) ==
    /\ Routed(req, "create")
    /\ \E uuid \in Uuid4 :
         LET job == Job(uuid, req.body.name, req.body.description, "pending", Now)
         IN  /\ jobs_db' = AppendJob(jobs_db, job)
             /\ created' = Append(created, job)
             /\ Reply(c, Response(req, 200, <<>>))
    /\ UNCHANGED deleted

\* mutant: the handler answers "deleted" whether or not the scan found the job
delete_job_unchecked(c, req) ==
    /\ Routed(req, "delete")
    /\ LET i == Find(jobs_db, req.id)
       IN  /\ jobs_db' = IF i # 0 THEN Pop(jobs_db, i) ELSE jobs_db
           /\ deleted' = [deleted EXCEPT ![req.id] = @ + 1]
           /\ Reply(c, Response(req, 200, DeletedMessage(req.id)))
    /\ UNCHANGED created

delete_job(c, req) ==
    /\ Routed(req, "delete")
    /\ LET i == Find(jobs_db, req.id)
       IN  IF i # 0
           THEN /\ jobs_db' = Pop(jobs_db, i)
                /\ deleted' = [deleted EXCEPT ![req.id] = @ + 1]
                /\ Reply(c, Response(req, 200, DeletedMessage(req.id)))
           ELSE /\ Reply(c, Response(req, 404, NotFoundDetail(req.id)))
                /\ UNCHANGED <<jobs_db, deleted>>
    /\ UNCHANGED created

update_job_status(c, req) ==
    /\ Routed(req, "patch")
    /\ LET i == Find(jobs_db, req.id)
       IN  IF i # 0
           THEN /\ jobs_db' = SetStatus(jobs_db, i, req.status)
                /\ Reply(c, Response(req, 200, <<>>))
           ELSE /\ Reply(c, Response(req, 404, NotFoundDetail(req.id)))
                /\ UNCHANGED jobs_db
    /\ UNCHANGED <<created, deleted>>

Startup ==
    \/ ParsePort
    \/ print_server_info
    \/ BindOk
    \/ BindFail
    \/ Interrupt

\* one client: each request is handled before the next one is sent
Client == "c1"

Next ==
    \/ Startup
    \/ \E req \in Requests : health_check(Client, req)
    \/ \E req \in Requests : get_jobs(Client, req)
    \/ \E req \in Requests : get_job(Client, req)
    \/ \E req \in Requests : create_job(Client, req)
    \/ \E req \in Requests : delete_job(Client, req)
    \/ \E req \in Requests : update_job_status(Client, req)

Spec == Init /\ [][Next]_vars

\* several clients: requests wait on their connections and the event loop runs
\* the handlers of the waiting requests in any order
ConcRequests == {req \in Requests : req.op \in {"get", "create", "delete", "patch"}}

ConcNext ==
    \/ Startup
    \/ \E c \in Conns, req \in ConcRequests : Receive(c, req)
    \/ \E c \in Conns : get_job(c, pending[c])
    \/ \E c \in Conns : create_job(c, pending[c])
    \/ \E c \in Conns : delete_job(c, pending[c])
    \/ \E c \in Conns : update_job_status(c, pending[c])

ConcSpec == Init /\ [][ConcNext]_vars

\* =====================================================================
\* Properties
\* =====================================================================
IdsOf(db) == [i \in 1..Len(db) |-> db[i].id]

Distinct(seq) == \A i, j \in 1..Len(seq) : i # j => seq[i] # seq[j]

Absent(db, job_id) == \A i \in 1..Len(db) : db[i].id # job_id

NotDeleted(job) == deleted[job.id] = 0

RECURSIVE SumOver(_, _)
SumOver(f, S) ==
    IF S = {} THEN 0
    ELSE LET x == CHOOSE x \in S : TRUE IN f[x] + SumOver(f, S \ {x})

Deletes == SumOver(deleted, Ids)

\* C1: no two jobs in the store have the same id, and the ids create_job has
\* returned so far are pairwise distinct.
C1_UniqueIds ==
    /\ Distinct(IdsOf(jobs_db))
    /\ Distinct(IdsOf(created))

C1_Witness ==
    /\ Len(created) >= 3
    /\ Len(jobs_db) >= 2
    /\ Deletes >= 1

\* C2: the store is the sequence of created jobs, in creation order, without
\* the successfully deleted ones: one element fewer per successful delete, a
\* deleted id is no longer found, and without deletes every created job is
\* there.
C2_InsertionOrder ==
    /\ IdsOf(jobs_db) = IdsOf(SelectSeq(created, NotDeleted))
    /\ Len(jobs_db) = Len(created) - Deletes
    /\ \A i, j \in 1..Len(jobs_db) : i < j => jobs_db[i].created_at < jobs_db[j].created_at
    /\ \A id \in Ids : deleted[id] > 0 => Lookup(jobs_db, id) = NoJob
    /\ Deletes = 0 => IdsOf(jobs_db) = IdsOf(created)

C2_Witness ==
    /\ Len(created) = 3
    /\ Len(jobs_db) = 2
    /\ deleted[created[2].id] = 1
    /\ last.req.op = "delete"

\* C3: get, delete and update_status on an id that is not in the store (never
\* inserted, or deleted) answer 404 "Job {id} not found" and leave the store as
\* it was.
C3_Step ==
    \A c \in Conns, req \in Requests :
        ( /\ get_job(c, req) \/ delete_job(c, req) \/ update_job_status(c, req)
          /\ Absent(jobs_db, req.id) )
        => /\ last' = Response(req, 404, <<"Job ", req.id, " not found">>)
           /\ jobs_db' = jobs_db

C3_NotFound == [][C3_Step]_vars

C3_Witness ==
    /\ last.code = 404
    /\ last.req.op \in {"delete", "patch"}
    /\ deleted[last.req.id] = 1
    /\ jobs_db # <<>>

\* C4: update_status on an id in the store sets the status of that job, so
\* that a lookup of the id shows it, and changes nothing else: not the other
\* fields of the job, not its position, not any other job.  Every job in the
\* store has the id, name, description and created_at create_job gave it.
C4_Step ==
    \A c \in Conns, req \in Requests :
        ( update_job_status(c, req) /\ ~Absent(jobs_db, req.id) )
        => /\ Len(jobs_db') = Len(jobs_db)
           /\ \A i \in 1..Len(jobs_db) :
                jobs_db'[i] = IF jobs_db[i].id = req.id
                              THEN [jobs_db[i] EXCEPT !.status = req.status]
                              ELSE jobs_db[i]
           /\ Lookup(jobs_db', req.id).status = req.status
           /\ last'.code = 200

C4_AsCreated ==
    \A i \in 1..Len(jobs_db) :
        \E k \in 1..Len(created) :
            created[k] = [jobs_db[i] EXCEPT !.status = "pending"]

C4_UpdateStatus == []C4_AsCreated /\ [][C4_Step]_vars

C4_Witness ==
    /\ last.req.op = "patch"
    /\ last.code = 200
    /\ Len(jobs_db) >= 2
    /\ Lookup(jobs_db, last.req.id).status = "done"
    /\ \E i \in 1..Len(jobs_db) : jobs_db[i].status = "running"

\* C5: GET /health, GET /jobs and GET /jobs/{id} leave the store as it was,
\* and a step that changes the store is a step of POST /jobs, DELETE /jobs/{id}
\* or PATCH /jobs/{id}/status.
C5_Step ==
    /\ \A c \in Conns, req \in Requests :
         health_check(c, req) \/ get_jobs(c, req) \/ get_job(c, req)
            => jobs_db' = jobs_db
    /\ jobs_db' # jobs_db
         => \E c \in Conns, req \in Requests :
                create_job(c, req) \/ delete_job(c, req) \/ update_job_status(c, req)

C5_ReadOnly == [][C5_Step]_vars

C5_Witness ==
    /\ last.req.op = "get"
    /\ last.code = 404
    /\ Len(jobs_db) >= 1

\* C6: while the process serves, the first line of standard output is the
\* announcement of the port resolved from the arguments (8000 without one), no
\* later line is an announcement, and print_server_info has run once.
ExpectedPort ==
    CASE argv = <<>> -> 8000
      [] argv = << <<"9", "9", "9", "9">> >> -> 9999
      [] argv = << <<" ", "-", "1">> >> -> 0 - 1
      [] argv = << <<"7", "0", "0", "0", "0">> >> -> 70000
      [] OTHER -> 0 - 2

Started == {k \in 1..Len(stderr) : stderr[k][1] = "[Server] Started on port "}

C6_Announcement ==
    pc = "serving" =>
        /\ Len(stdout) >= 1
        /\ stdout[1] = <<"port", ExpectedPort>>
        /\ \A k \in 2..Len(stdout) : stdout[k][1] # "port"
        /\ Cardinality(Started) = 1

C6_Witness ==
    /\ pc = "serving"
    /\ argv # <<>>
    /\ Len(stdout) >= 2

\* C7: with a port argument that is not an integer the process never leaves
\* main except to terminate with exit code 1; standard output stays empty
\* and the one line of output is the diagnostic on standard error.
InvalidArgs == { << <<"a", "b", "c">> >>, << <<"8", "a">> >>, << <<>> >> }

C7_InvalidPort ==
    argv \in InvalidArgs =>
        /\ pc \in {"main", "terminated"}
        /\ stdout = <<>>
        /\ pc = "main" => stderr = <<>> /\ exitCode = -1
        /\ pc = "terminated" =>
             /\ exitCode = 1
             /\ stderr = << <<"Invalid port number: ", argv[1]>> >>

C7_Witness ==
    /\ argv = << <<"8", "a">> >>
    /\ pc = "terminated"

\* C8: no run shows the port announcement on standard output and then ends
\* with a start-up failure (exit code 1).
Announced == \E k \in 1..Len(stdout) : stdout[k][1] = "port"

C8_NoPartialStart == ~(Announced /\ exitCode = 1)

\* C9: the process moves Init -> Listening -> Serving -> Terminated and in no
\* other way: it leaves Serving only on an interrupt, with exit code 0; a
\* failed start (invalid port, failed bind) ends it with exit code 1; and
\* Terminated is never left.
Phase(p) ==
    CASE p = "main" -> "Init"
      [] p \in {"run_server", "announced"} -> "Listening"
      [] p = "serving" -> "Serving"
      [] p = "terminated" -> "Terminated"

Interrupted(err) == err # <<>> /\ err[Len(err)] = <<"[Server] Shutting down...">>

C9_Step ==
    /\ pc = "terminated" => pc' = "terminated" /\ exitCode' = exitCode
    /\ pc' # pc =>
         \/ pc = "run_server" /\ pc' = "announced"
         \/ <<Phase(pc), Phase(pc')>> \in
                { <<"Init", "Listening">>, <<"Listening", "Serving">>,
                  <<"Init", "Terminated">>, <<"Listening", "Terminated">>,
                  <<"Serving", "Terminated">> }
    /\ (pc # "terminated" /\ pc' = "terminated") =>
         /\ exitCode' = IF Interrupted(stderr') THEN 0 ELSE 1
         /\ pc = "serving" => Interrupted(stderr')
         /\ pc = "main" => ~Interrupted(stderr')
    /\ pc' # "terminated" => exitCode' = -1

C9_Lifecycle == [][C9_Step]_vars

C9_Witness ==
    /\ pc = "terminated"
    /\ exitCode = 0
    /\ jobs_db # <<>>

\* C10: with requests waiting on several connections and their handlers run
\* in any order, every handler step has the effect of the one operation run
\* alone on the store as it is then -- whatever else is waiting --, no job is
\* deleted twice, and the ids stay unique and in insertion order.
SerialEffect(req, db, db2) ==
    CASE req.op = "get" -> db2 = db
      [] req.op = "create" ->
           /\ Len(db2) = Len(db) + 1
           /\ SubSeq(db2, 1, Len(db)) = db
           /\ Absent(db, db2[Len(db2)].id)
           /\ db2[Len(db2)].name = req.body.name
           /\ db2[Len(db2)].description = req.body.description
           /\ db2[Len(db2)].status = "pending"
      [] req.op = "delete" ->
           LET Other(job) == job.id # req.id IN db2 = SelectSeq(db, Other)
      [] req.op = "patch" ->
           db2 = [i \in 1..Len(db) |->
                    IF db[i].id = req.id THEN [db[i] EXCEPT !.status = req.status]
                    ELSE db[i]]

C10_Step ==
    \A c \in Conns :
        ( \/ get_job(c, pending[c])
          \/ create_job(c, pending[c])
          \/ delete_job(c, pending[c])
          \/ update_job_status(c, pending[c]) )
        => /\ SerialEffect(pending[c], jobs_db, jobs_db')
           /\ pending' = [pending EXCEPT ![c] = Idle]
           /\ last'.code = IF pending[c].op = "create" \/ ~Absent(jobs_db, pending[c].id)
                           THEN 200 ELSE 404

C10_Inv ==
    /\ Distinct(IdsOf(jobs_db))
    /\ IdsOf(jobs_db) = IdsOf(SelectSeq(created, NotDeleted))
    /\ \A id \in Ids : deleted[id] <= 1

C10_Serial == []C10_Inv /\ [][C10_Step]_vars

C10_Witness ==
    /\ pending["c1"].op = "delete"
    /\ last.req = pending["c1"]
    /\ last.code = 200
    /\ pending["c2"].op = "patch"
    /\ pending["c2"].id = pending["c1"].id
    /\ deleted[pending["c1"].id] = 1
====
